---- MODULE Spec2Model ----
(***************************************************************************)
(* Model of src/src/main.rs: a rate-limited admission loop feeding either  *)
(* a bounded pool of blocking worker threads (Mode::Sync) or one spawned   *)
(* task per request (Mode::Async), followed by the statistics aggregation. *)
(*                                                                         *)
(* Time is an integer number of milliseconds on one global clock `now`     *)
(* (Instant::now()).  TaskStats.overhead, an f64 number of seconds in the  *)
(* source, is kept as an integer number of milliseconds.  A record carries *)
(* one ghost field, `id`, the index i of the admission-loop iteration that *)
(* created its request; the program never reads it.                        *)
(***************************************************************************)
EXTENDS Integers, Sequences, FiniteSets, TLC

VARIABLES
    mode,                 \* config.mode: "Sync" or "Async"
    n_workers,            \* Mode::Sync(n_workers)
    n_jobs,               \* config.n_jobs
    latency_distribution, \* config.latency_distribution
    rps,                  \* config.rps
    duration_ms,          \* main: duration_ms
    refill,               \* main: refill
    pc,                   \* position of the main task
    panic,                \* "none", or the reason the process panicked
    now,                  \* the clock read by Instant::now()
    waited,               \* clock ticks spent in the pending acquire_one()
    acquire_failed,       \* ghost: some acquire_one() has returned Err
    i,                    \* loop index of the admission loop
    queue,                \* the bounded task channel of sync_execution
    send_open,            \* TRUE until drop(send)
    workers,              \* the worker threads of sync_execution
    joined,               \* number of worker threads joined so far
    units,                \* the tasks spawned by async_execution
    awaited,              \* number of spawned tasks awaited so far
    stats,                \* the stats channel (stats_store / stats_recv)
    emitted,              \* ghost: ids of the requests whose record was emitted
    lost,                 \* ghost: ids of records dropped by a failed try_send
    received,             \* number of records taken from the stats channel
    latencies,            \* Vec<TaskStats> built by process_*_stats
    rps_buckets,          \* HashMap<u64, u64> built by process_*_stats
    sorted,               \* latencies after the sort_by of a build_* function
    tl_start,             \* build_latency_timeline: start
    tl_i,                 \* build_latency_timeline: enumerate() index
    batch,                \* build_latency_timeline: next_second_latency_batch
    timeline,             \* build_latency_timeline: windows closed so far
    p,                    \* build_latency_histogram: loop variable p
    idx,                  \* build_latency_histogram: last index computed
    rps_start,            \* build_rps_graph: start
    rps_end,              \* build_rps_graph: end
    rps_i,                \* build_rps_graph: loop variable i of the first loop
    rps_x,                \* build_rps_graph: x
    rps_y,                \* build_rps_graph: y
    rps_total,            \* build_rps_graph: total
    rps_den,              \* build_rps_graph: end - start, the divisor of avg
    rps_dev               \* build_rps_graph: deviation, times rps_den squared

configVars == <<mode, n_workers, n_jobs, latency_distribution, rps>>
rateVars   == <<duration_ms, refill>>
execVars   == <<now, waited, acquire_failed, i, queue, send_open, workers, joined, units,
                awaited, stats, emitted, lost>>
statVars   == <<received, latencies, rps_buckets>>
tlVars     == <<sorted, tl_start, tl_i, batch, timeline>>
histVars   == <<p, idx>>
rpsVars    == <<rps_start, rps_end, rps_i, rps_x, rps_y, rps_total, rps_den,
                rps_dev>>
vars == <<configVars, rateVars, pc, panic, execVars, statVars, tlVars, histVars,
         rpsVars>>

----------------------------------------------------------------------------
(* Bounds of the model.                                                    *)

MaxJobs == 2
MaxWorkers == 2
MaxLatencyItems == 2
TickMs == 500
MaxRate == 2500
MaxRecords == 4
MaxSecond == 5
ExecRates == {100}
Costs == {200, 1000}
StartTimes == {0, 500, 1000, 2000}
Overheads == {0, 300}
AggCost == 200
HistSizes == {0, 1, 3, 50}

----------------------------------------------------------------------------
(* Program constants.                                                      *)

TIMEOUT == 1000

----------------------------------------------------------------------------
(* Helpers.                                                                *)

Max(a, b) == IF a >= b THEN a ELSE b

SeqsUpTo(S, n) == UNION {[1..k -> S] : k \in 0..n}

Range(s) == {s[k] : k \in DOMAIN s}

\* The sum of f[k] over the keys k in S.
RECURSIVE SumOver(_, _)
SumOver(f, S) ==
    IF S = {} THEN 0
    ELSE LET k == CHOOSE b \in S : TRUE
         IN  f[k] + SumOver(f, S \ {k})

\* The stable ascending sort of the records s by their field f, the order
\* slice::sort_by(|a, b| a.f.partial_cmp(&b.f).unwrap()) produces: the
\* record at position k moves behind the records with a smaller f and the
\* earlier records with the same f.
SortBy(s, f) ==
    LET Rank(k) == Cardinality({j \in DOMAIN s :
                                   s[j][f] < s[k][f] \/ (s[j][f] = s[k][f] /\ j < k)})
    IN  [r \in DOMAIN s |-> s[CHOOSE k \in DOMAIN s : Rank(k) = r - 1]]

----------------------------------------------------------------------------
(* Values.                                                                 *)

NoTask == [id |-> -1, start |-> 0, cost |-> 0]

NoStats == [id |-> -1, success |-> FALSE, start_time |-> 0,
            completion_time |-> 0, overhead |-> 0]

\* Task { start, cost }
Task(k, start, cost) == [id |-> k, start |-> start, cost |-> cost]

\* Mutant: the timeout comparison is inclusive.
SyncSuccessInclusive(cost) == cost <= TIMEOUT

\* val.cost < TIMEOUT in the worker thread
SyncSuccess(cost) == cost < TIMEOUT

\* cost < 1_000 in the spawned task
AsyncSuccess(cost) == cost < 1000

\* TaskStats { start_time, success, completion_time, overhead }
TaskStats(k, start, cost, success, t) ==
    [id |-> k, success |-> success, start_time |-> start,
     completion_time |-> t, overhead |-> (t - start) - cost]

\* latency_distribution[i % latency_distribution.len()]
CostOf(k) == latency_distribution[(k % Len(latency_distribution)) + 1]

\* Mutant: the channels hold one element less than n_jobs.
CapacityOneShort == n_jobs - 1

\* Capacity of the channels created with bounded(n_jobs) / channel(n_jobs).
Capacity == n_jobs

\* stats.completion_time.duration_since(start_time).as_secs(); main's
\* start_time is the clock's origin.
BucketOf(st) == st.completion_time \div 1000

\* rps_buckets.entry(key).or_insert(0).add_assign(1)
AddAssign(buckets, key) ==
    IF key \in DOMAIN buckets
    THEN [buckets EXCEPT ![key] = @ + 1]
    ELSE [k \in DOMAIN buckets \cup {key} |->
             IF k = key THEN 1 ELSE buckets[k]]

EmptyBuckets == [k \in {} |-> 0]

----------------------------------------------------------------------------
(* ModelConfig::from_cli: the --latency argument.  An item of the comma    *)
(* separated list is `value` (star = FALSE) or `value*count`.              *)

LatencyItems ==
    {[value |-> v, star |-> FALSE, count |-> 1] : v \in Costs}
        \cup [value : Costs, star : {TRUE}, count : 0..MaxLatencyItems]

\* parse_latency_item: one cost, or (0..count).map(|_| value).collect().
parse_latency_item(s) ==
    IF ~s.star THEN <<s.value>> ELSE [k \in 1..s.count |-> s.value]

\* split(',').map(parse_latency_item).flatten().collect()
RECURSIVE Flatten(_)
Flatten(items) ==
    IF items = <<>> THEN <<>>
    ELSE parse_latency_item(Head(items)) \o Flatten(Tail(items))

\* The distributions of at most MaxLatencyItems costs that from_cli yields
\* from a list of at least one item.
LatencyDistributions ==
    {d \in {Flatten(items) : items \in SeqsUpTo(LatencyItems, MaxLatencyItems) \ {<<>>}} :
        Len(d) <= MaxLatencyItems}

----------------------------------------------------------------------------
(* Initial states.                                                         *)

Idle == [state |-> "recv", task |-> NoTask, wake |-> 0]

InitRest ==
    /\ duration_ms = 1000
    /\ refill = rps
    /\ panic = "none"
    /\ now = 0
    /\ waited = 0
    /\ acquire_failed = FALSE
    /\ i = 0
    /\ queue = <<>>
    /\ send_open = TRUE
    /\ workers = [w \in 1..n_workers |-> Idle]
    /\ joined = 0
    /\ units = <<>>
    /\ awaited = 0
    /\ stats = <<>>
    /\ emitted = {}
    /\ lost = {}
    /\ received = 0
    /\ latencies = <<>>
    /\ rps_buckets = EmptyBuckets
    /\ sorted = <<>>
    /\ tl_start = 0
    /\ tl_i = 0
    /\ batch = <<>>
    /\ timeline = <<>>
    /\ p = 0
    /\ idx = 0
    /\ rps_start = 0
    /\ rps_end = 0
    /\ rps_i = 0
    /\ rps_x = <<>>
    /\ rps_y = <<>>
    /\ rps_total = 0
    /\ rps_den = 0
    /\ rps_dev = 0

\* main() entered with a Mode::Sync configuration.
InitSync ==
    /\ mode = "Sync"
    /\ n_workers \in 0..MaxWorkers
    /\ n_jobs \in 0..MaxJobs
    /\ latency_distribution \in LatencyDistributions
    /\ rps \in ExecRates
    /\ pc = "rate_loop"
    /\ InitRest

\* main() entered with a Mode::Async configuration.
InitAsync ==
    /\ mode = "Async"
    /\ n_workers = 0
    /\ n_jobs \in 0..MaxJobs
    /\ latency_distribution \in LatencyDistributions
    /\ rps \in ExecRates
    /\ pc = "rate_loop"
    /\ InitRest

----------------------------------------------------------------------------
(* main: the rate limiter's configuration.                                 *)

\* Mutants of the loop condition: it forgets the divisibility test, or it
\* stops one division early.
RateLoopCondInexact == duration_ms > 1 /\ refill >= 10

RateLoopCondStopsEarly == duration_ms > 10 /\ refill % 10 = 0

\* while duration_ms > 1 && refill % 10 == 0
RateLoopCond == duration_ms > 1 /\ refill % 10 = 0

\* { duration_ms /= 10; refill /= 10; }
RateStep ==
    /\ pc = "rate_loop"
    /\ RateLoopCond
    /\ duration_ms' = duration_ms \div 10
    /\ refill' = refill \div 10
    /\ UNCHANGED <<configVars, pc, panic, execVars, statVars, tlVars, histVars, rpsVars>>

\* The loop ends and LeakyBucket::builder()...build() yields the limiter.
RateDone ==
    /\ pc = "rate_loop"
    /\ ~RateLoopCond
    /\ pc' = "start"
    /\ UNCHANGED <<configVars, rateVars, panic, execVars, statVars, tlVars, histVars, rpsVars>>

\* main creates the stats channel.  crossbeam's bounded(0) is a rendezvous
\* channel; tokio's mpsc::channel(0) panics.
CreateStatsChannel ==
    /\ pc = "start"
    /\ IF mode = "Async" /\ n_jobs = 0
       THEN pc' = "panicked" /\ panic' = "mpsc bounded channel requires buffer > 0"
       ELSE pc' = "admit" /\ panic' = panic
    /\ UNCHANGED <<configVars, rateVars, execVars, statVars, tlVars, histVars, rpsVars>>

----------------------------------------------------------------------------
(* The clock.                                                              *)

\* The results of rate_limiter.acquire_one().await: the token, or an error
\* of the limiter.
AcquireResults == {"Ok", "Err"}

Running == pc # "panicked"

\* acquire_one() is granted within one refill interval of the limiter, which
\* spans this many ticks of the clock.
MaxAcquireWait == (duration_ms + TickMs - 1) \div TickMs

AcquirePending == pc = "admit" /\ i < n_jobs

Sleeping ==
    \/ \E w \in DOMAIN workers : workers[w].state = "sleep" /\ now < workers[w].wake
    \/ \E u \in DOMAIN units : units[u].state = "delay" /\ now < units[u].wake

\* Time passes while somebody waits for it: the admission loop inside
\* acquire_one() (the limiter grants the token after at most MaxAcquireWait
\* ticks), a worker inside sleep(), or a spawned task inside delay_for().
Tick ==
    /\ Running
    /\ (AcquirePending /\ waited < MaxAcquireWait) \/ Sleeping
    /\ now' = now + TickMs
    /\ waited' = IF AcquirePending /\ waited < MaxAcquireWait
                 THEN waited + 1 ELSE waited
    /\ UNCHANGED <<configVars, rateVars, pc, panic, acquire_failed, i, queue, send_open, workers,
                   joined, units, awaited, stats, emitted, lost, statVars, tlVars, histVars, rpsVars>>

----------------------------------------------------------------------------
(* sync_execution.                                                         *)

\* Mutant: the channel is a rendezvous channel, full for every try_send
\* while nobody receives.
TrySendRendezvous(ch, x) == ch

\* Sender::try_send on a bounded channel: Err(Full) leaves the channel as is.
TrySend(ch, x) == IF Len(ch) < Capacity THEN Append(ch, x) ELSE ch

\* Mutant: a worker takes the next task while it still holds one.
WorkerRecvBusy(w) ==
    /\ Running
    /\ workers[w].state \in {"recv", "sleep"}
    /\ queue # <<>>
    /\ workers' = [workers EXCEPT ![w] =
                     [state |-> "sleep", task |-> Head(queue),
                      wake |-> now + Head(queue).cost]]
    /\ queue' = Tail(queue)
    /\ UNCHANGED <<configVars, rateVars, pc, panic, now, waited, acquire_failed, i, send_open,
                   joined, units, awaited, stats, emitted, lost, statVars, tlVars,
                   histVars, rpsVars>>

\* `for val in receiver` takes the next task: receiver.recv() returned Ok.
WorkerRecv(w) ==
    /\ Running
    /\ workers[w].state = "recv"
    /\ queue # <<>>
    /\ workers' = [workers EXCEPT ![w] =
                     [state |-> "sleep", task |-> Head(queue),
                      wake |-> now + Head(queue).cost]]
    /\ queue' = Tail(queue)
    /\ UNCHANGED <<configVars, rateVars, pc, panic, now, waited, acquire_failed, i, send_open,
                   joined, units, awaited, stats, emitted, lost, statVars, tlVars,
                   histVars, rpsVars>>

\* Mutant: the worker sends its record twice.
WorkerReportTwice(w) ==
    /\ Running
    /\ workers[w].state = "sleep"
    /\ now >= workers[w].wake
    /\ LET val == workers[w].task
           st  == TaskStats(val.id, val.start, val.cost, SyncSuccess(val.cost), now)
       IN  /\ stats' = TrySend(TrySend(stats, st), st)
           /\ lost' = IF stats' = stats THEN lost \cup {val.id} ELSE lost
           /\ emitted' = emitted \cup {val.id}
    /\ workers' = [workers EXCEPT ![w] = Idle]
    /\ UNCHANGED <<configVars, rateVars, pc, panic, now, waited, acquire_failed, i, queue,
                   send_open, joined, units, awaited, statVars, tlVars, histVars, rpsVars>>

\* sleep() is over: build the TaskStats and try_send it, ignoring an error.
WorkerReport(w) ==
    /\ Running
    /\ workers[w].state = "sleep"
    /\ now >= workers[w].wake
    /\ LET val == workers[w].task
           st  == TaskStats(val.id, val.start, val.cost, SyncSuccess(val.cost), now)
       IN  /\ stats' = TrySend(stats, st)
           /\ lost' = IF stats' = stats THEN lost \cup {val.id} ELSE lost
           /\ emitted' = emitted \cup {val.id}
    /\ workers' = [workers EXCEPT ![w] = Idle]
    /\ UNCHANGED <<configVars, rateVars, pc, panic, now, waited, acquire_failed, i, queue,
                   send_open, joined, units, awaited, statVars, tlVars, histVars, rpsVars>>

\* `for val in receiver` ends: the channel is empty and its sender dropped.
WorkerExit(w) ==
    /\ Running
    /\ workers[w].state = "recv"
    /\ queue = <<>>
    /\ ~send_open
    /\ workers' = [workers EXCEPT ![w] = [Idle EXCEPT !.state = "exited"]]
    /\ UNCHANGED <<configVars, rateVars, pc, panic, now, waited, acquire_failed, i, queue,
                   send_open, joined, units, awaited, stats, emitted, lost, statVars,
                   tlVars, histVars, rpsVars>>

\* Mutant: acquire_one().await.unwrap(), an Err of the limiter aborts.
SyncAdmitAcquireUnwrap ==
    /\ pc = "admit"
    /\ mode = "Sync"
    /\ i < n_jobs
    /\ \E r \in AcquireResults :
          /\ acquire_failed' = (acquire_failed \/ r = "Err")
          /\ IF r = "Err" \/ Len(latency_distribution) = 0 \/ Len(queue) >= Capacity
             THEN /\ pc' = "panicked"
                  /\ panic' = IF r = "Err" THEN "unwrap on Err(acquire_one)"
                              ELSE IF Len(latency_distribution) = 0
                              THEN "remainder with a divisor of zero"
                              ELSE "unwrap on Err(Full)"
                  /\ UNCHANGED <<i, queue, waited>>
             ELSE /\ queue' = Append(queue, Task(i, now, CostOf(i)))
                  /\ i' = i + 1
                  /\ waited' = 0
                  /\ UNCHANGED <<pc, panic>>
    /\ UNCHANGED <<configVars, rateVars, now, send_open, workers, joined, units,
                   awaited, stats, emitted, lost, statVars, tlVars, histVars, rpsVars>>

\* One iteration of `for i in 0..n_jobs` of sync_execution: acquire_one()
\* returned r (unwrap_or_default() ignores an Err), the cost is looked up
\* and the task is pushed with try_send(..).unwrap().
SyncAdmit ==
    /\ pc = "admit"
    /\ mode = "Sync"
    /\ i < n_jobs
    /\ \E r \in AcquireResults : acquire_failed' = (acquire_failed \/ r = "Err")
    /\ IF Len(latency_distribution) = 0
       THEN /\ pc' = "panicked"
            /\ panic' = "remainder with a divisor of zero"
            /\ UNCHANGED <<i, queue, waited>>
       ELSE IF Len(queue) >= Capacity
       THEN /\ pc' = "panicked"
            /\ panic' = "unwrap on Err(Full)"
            /\ UNCHANGED <<i, queue, waited>>
       ELSE /\ queue' = Append(queue, Task(i, now, CostOf(i)))
            /\ i' = i + 1
            /\ waited' = 0
            /\ UNCHANGED <<pc, panic>>
    /\ UNCHANGED <<configVars, rateVars, now, send_open, workers, joined, units,
                   awaited, stats, emitted, lost, statVars, tlVars, histVars, rpsVars>>

\* The admission loop of sync_execution is over.
SyncAdmitDone ==
    /\ pc = "admit"
    /\ mode = "Sync"
    /\ i = n_jobs
    /\ pc' = "drain"
    /\ UNCHANGED <<configVars, rateVars, panic, execVars, statVars, tlVars, histVars, rpsVars>>

\* Mutant: the sender is dropped without waiting for the records.
DrainExitEarly ==
    /\ pc = "drain"
    /\ send_open' = FALSE
    /\ pc' = "join"
    /\ UNCHANGED <<configVars, rateVars, panic, now, waited, acquire_failed, i, queue, workers,
                   joined, units, awaited, stats, emitted, lost, statVars, tlVars, histVars, rpsVars>>

\* while stats_store.len() < n_jobs { sleep(1s) } falls through; drop(send).
DrainExit ==
    /\ pc = "drain"
    /\ ~(Len(stats) < n_jobs)
    /\ send_open' = FALSE
    /\ pc' = "join"
    /\ UNCHANGED <<configVars, rateVars, panic, now, waited, acquire_failed, i, queue, workers,
                   joined, units, awaited, stats, emitted, lost, statVars, tlVars, histVars, rpsVars>>

\* t.join().unwrap() for the next thread of `threads`.
JoinWorker ==
    /\ pc = "join"
    /\ joined < n_workers
    /\ workers[joined + 1].state = "exited"
    /\ joined' = joined + 1
    /\ UNCHANGED <<configVars, rateVars, pc, panic, now, waited, acquire_failed, i, queue,
                   send_open, workers, units, awaited, stats, emitted, lost, statVars,
                   tlVars, histVars, rpsVars>>

\* Every thread is joined: sync_execution returns.
JoinDone ==
    /\ pc = "join"
    /\ joined = n_workers
    /\ pc' = "process_stats"
    /\ UNCHANGED <<configVars, rateVars, panic, execVars, statVars, tlVars, histVars, rpsVars>>

----------------------------------------------------------------------------
(* async_execution.                                                        *)

\* The spawned tasks that have not handed over their record yet.
Outstanding == {u \in DOMAIN units : units[u].state # "done"}

\* Mutant: admission waits while a spawned task is outstanding, as a pool of
\* one worker would make it.
AsyncAdmitBounded ==
    /\ pc = "admit"
    /\ mode = "Async"
    /\ i < n_jobs
    /\ Len(latency_distribution) > 0
    /\ Cardinality(Outstanding) < 1
    /\ \E r \in AcquireResults : acquire_failed' = (acquire_failed \/ r = "Err")
    /\ units' = Append(units, [state |-> "delay", id |-> i, start |-> now,
                               cost |-> CostOf(i), wake |-> now + CostOf(i),
                               stats |-> NoStats])
    /\ i' = i + 1
    /\ waited' = 0
    /\ UNCHANGED <<configVars, rateVars, pc, panic, now, queue, send_open, workers,
                   joined, awaited, stats, emitted, lost, statVars, tlVars,
                   histVars, rpsVars>>

\* One iteration of `for i in 0..n_jobs` of async_execution: acquire_one()
\* returned r (unwrap_or_default() ignores an Err), the cost is looked up
\* and a task is spawned, which starts in delay_for(cost).
AsyncAdmit ==
    /\ pc = "admit"
    /\ mode = "Async"
    /\ i < n_jobs
    /\ \E r \in AcquireResults : acquire_failed' = (acquire_failed \/ r = "Err")
    /\ IF Len(latency_distribution) = 0
       THEN /\ pc' = "panicked"
            /\ panic' = "remainder with a divisor of zero"
            /\ UNCHANGED <<i, units, waited>>
       ELSE /\ units' = Append(units, [state |-> "delay", id |-> i, start |-> now,
                                       cost |-> CostOf(i), wake |-> now + CostOf(i),
                                       stats |-> NoStats])
            /\ i' = i + 1
            /\ waited' = 0
            /\ UNCHANGED <<pc, panic>>
    /\ UNCHANGED <<configVars, rateVars, now, queue, send_open, workers, joined,
                   awaited, stats, emitted, lost, statVars, tlVars, histVars, rpsVars>>

\* delay_for() is over: the task reads the clock and builds its TaskStats.
UnitWake(u) ==
    /\ Running
    /\ units[u].state = "delay"
    /\ now >= units[u].wake
    /\ units' = [units EXCEPT ![u].state = "send",
                              ![u].stats = TaskStats(units[u].id, units[u].start,
                                              units[u].cost,
                                              AsyncSuccess(units[u].cost), now)]
    /\ UNCHANGED <<configVars, rateVars, pc, panic, now, waited, acquire_failed, i, queue,
                   send_open, workers, joined, awaited, stats, emitted, lost,
                   statVars, tlVars, histVars, rpsVars>>

\* stats_sender.send(stats).await completes once the channel has a free slot
\* (the receiver stays open until main ends, so send never returns Err).
UnitSend(u) ==
    /\ Running
    /\ units[u].state = "send"
    /\ Len(stats) < Capacity
    /\ stats' = Append(stats, units[u].stats)
    /\ emitted' = emitted \cup {units[u].id}
    /\ units' = [units EXCEPT ![u].state = "done"]
    /\ UNCHANGED <<configVars, rateVars, pc, panic, now, waited, acquire_failed, i, queue,
                   send_open, workers, joined, awaited, lost, statVars, tlVars,
                   histVars, rpsVars>>

\* stats_sender.send(stats).await returns Err(SendError), which it does when
\* the channel's receiver is closed: unwrap_or_default() turns the error into
\* (), the record is dropped and the task returns normally.
UnitSendErr(u) ==
    /\ Running
    /\ units[u].state = "send"
    /\ lost' = lost \cup {units[u].id}
    /\ emitted' = emitted \cup {units[u].id}
    /\ units' = [units EXCEPT ![u].state = "done"]
    /\ UNCHANGED <<configVars, rateVars, pc, panic, now, waited, acquire_failed, i, queue,
                   send_open, workers, joined, awaited, stats, statVars, tlVars,
                   histVars, rpsVars>>

\* The admission loop of async_execution is over.
AsyncAdmitDone ==
    /\ pc = "admit"
    /\ mode = "Async"
    /\ i = n_jobs
    /\ pc' = "await"
    /\ UNCHANGED <<configVars, rateVars, panic, execVars, statVars, tlVars, histVars, rpsVars>>

\* Mutant: the JoinHandle is taken without waiting for the task to finish.
AwaitUnitNoWait ==
    /\ pc = "await"
    /\ awaited < Len(units)
    /\ awaited' = awaited + 1
    /\ UNCHANGED <<configVars, rateVars, pc, panic, now, waited, acquire_failed, i, queue,
                   send_open, workers, joined, units, stats, emitted, lost,
                   statVars, tlVars, histVars, rpsVars>>

\* t.await.unwrap() for the next JoinHandle of `tasks`.
AwaitUnit ==
    /\ pc = "await"
    /\ awaited < Len(units)
    /\ units[awaited + 1].state = "done"
    /\ awaited' = awaited + 1
    /\ UNCHANGED <<configVars, rateVars, pc, panic, now, waited, acquire_failed, i, queue,
                   send_open, workers, joined, units, stats, emitted, lost,
                   statVars, tlVars, histVars, rpsVars>>

\* Every task is awaited: async_execution returns.
AwaitDone ==
    /\ pc = "await"
    /\ awaited = Len(units)
    /\ pc' = "process_stats"
    /\ UNCHANGED <<configVars, rateVars, panic, execVars, statVars, tlVars, histVars, rpsVars>>

----------------------------------------------------------------------------
(* process_sync_stats / process_async_stats.                               *)

\* Mutant: the receive loops keep every record, successful or not.
CollectAll(st) ==
    /\ latencies' = Append(latencies, st)
    /\ rps_buckets' = AddAssign(rps_buckets, BucketOf(st))

\* The body of both receive loops: keep a successful record and count it in
\* the bucket of its completion second.
Collect(st) ==
    /\ latencies' = IF st.success THEN Append(latencies, st) ELSE latencies
    /\ rps_buckets' = IF st.success THEN AddAssign(rps_buckets, BucketOf(st))
                      ELSE rps_buckets

\* while !stats_recv.is_empty() { stats_recv.recv() ... }
ProcessSyncStats ==
    /\ pc = "process_stats"
    /\ mode = "Sync"
    /\ stats # <<>>
    /\ Collect(Head(stats))
    /\ stats' = Tail(stats)
    /\ received' = received + 1
    /\ UNCHANGED <<configVars, rateVars, pc, panic, now, waited, acquire_failed, i, queue,
                   send_open, workers, joined, units, awaited, emitted, lost,
                   tlVars, histVars, rpsVars>>

\* The stats channel is empty: process_sync_stats returns.
ProcessSyncDone ==
    /\ pc = "process_stats"
    /\ mode = "Sync"
    /\ stats = <<>>
    /\ pc' = "timeline"
    /\ UNCHANGED <<configVars, rateVars, panic, execVars, statVars, tlVars, histVars, rpsVars>>

\* for _ in 0..n_jobs { stats_recv.recv().await ... }; recv() waits while the
\* channel is empty (a sender is alive in main, so it never yields None).
ProcessAsyncStats ==
    /\ pc = "process_stats"
    /\ mode = "Async"
    /\ received < n_jobs
    /\ stats # <<>>
    /\ Collect(Head(stats))
    /\ stats' = Tail(stats)
    /\ received' = received + 1
    /\ UNCHANGED <<configVars, rateVars, pc, panic, now, waited, acquire_failed, i, queue,
                   send_open, workers, joined, units, awaited, emitted, lost,
                   tlVars, histVars, rpsVars>>

\* n_jobs records were received: process_async_stats returns.
ProcessAsyncDone ==
    /\ pc = "process_stats"
    /\ mode = "Async"
    /\ received = n_jobs
    /\ pc' = "timeline"
    /\ UNCHANGED <<configVars, rateVars, panic, execVars, statVars, tlVars, histVars, rpsVars>>

----------------------------------------------------------------------------
(* build_latency_timeline.                                                 *)

\* Ascending sort of a sequence of numbers (the batch's sort_by).
SortNums(s) ==
    LET Rank(k) == Cardinality({j \in DOMAIN s :
                                   s[j] < s[k] \/ (s[j] = s[k] /\ j < k)})
    IN  [r \in DOMAIN s |-> s[CHOOSE k \in DOMAIN s : Rank(k) = r - 1]]

\* batch_size * num / den - 1 in usize arithmetic, before any wrap-around:
\* batch_size / 2 - 1, batch_size * 9 / 10 - 1, batch_size * 99 / 100 - 1.
WindowIndex(batch_size, num, den) == (batch_size * num) \div den - 1

\* The outcomes of indexing a Vec of length len with the usize value k - 1
\* computed from k >= 0: a negative k - 1 panics on the subtraction when
\* overflow checks are on and wraps to a huge index, which panics on the
\* bounds check, when they are off.
IndexPanics(k, len) ==
    IF k < 0 THEN {"attempt to subtract with overflow", "index out of bounds"}
    ELSE IF k >= len THEN {"index out of bounds"}
    ELSE {}

\* latencies.sort_by(start_time); let mut start = latencies[0].start_time;
TimelineStart ==
    /\ pc = "timeline"
    /\ sorted' = SortBy(latencies, "start_time")
    /\ IF Len(latencies) = 0
       THEN /\ pc' = "panicked"
            /\ panic' = "index out of bounds"
            /\ UNCHANGED <<tl_start>>
       ELSE /\ pc' = "timeline_loop"
            /\ tl_start' = sorted'[1].start_time
            /\ UNCHANGED panic
    /\ tl_i' = 0
    /\ batch' = <<>>
    /\ timeline' = <<>>
    /\ UNCHANGED <<configVars, rateVars, execVars, statVars, histVars, rpsVars>>

\* One iteration of `for (i, task) in latencies.iter().enumerate()`.
TimelineStep ==
    /\ pc = "timeline_loop"
    /\ tl_i < Len(sorted)
    /\ LET task   == sorted[tl_i + 1]
           moment == task.start_time
       IN  IF moment - tl_start >= 1000 \/ tl_i = Len(sorted) - 1
           THEN LET b    == SortNums(batch)
                    size == Len(b)
                    i50  == WindowIndex(size, 1, 2)
                    i90  == WindowIndex(size, 9, 10)
                    i99  == WindowIndex(size, 99, 100)
                    bad  == IF IndexPanics(i50, size) # {} THEN IndexPanics(i50, size)
                            ELSE IF IndexPanics(i90, size) # {}
                            THEN IndexPanics(i90, size)
                            ELSE IndexPanics(i99, size)
                IN  IF bad # {}
                    THEN /\ pc' = "panicked"
                         /\ panic' \in bad
                         /\ UNCHANGED <<tl_start, tl_i, batch, timeline>>
                    ELSE /\ timeline' = Append(timeline,
                                           [x |-> Len(timeline), size |-> size,
                                            p50 |-> b[i50 + 1], p90 |-> b[i90 + 1],
                                            p99 |-> b[i99 + 1]])
                         /\ batch' = b
                         /\ tl_start' = moment
                         /\ tl_i' = tl_i + 1
                         /\ UNCHANGED <<pc, panic>>
           ELSE /\ batch' = Append(batch, task.overhead)
                /\ tl_i' = tl_i + 1
                /\ UNCHANGED <<pc, panic, tl_start, timeline>>
    /\ UNCHANGED <<configVars, rateVars, execVars, statVars, sorted, histVars, rpsVars>>

\* The loop is over; the figure is saved and build_latency_timeline returns.
TimelineDone ==
    /\ pc = "timeline_loop"
    /\ tl_i = Len(sorted)
    /\ pc' = "histogram"
    /\ UNCHANGED <<configVars, rateVars, panic, execVars, statVars, tlVars, histVars, rpsVars>>

----------------------------------------------------------------------------
(* f64 arithmetic, as far as build_latency_histogram uses it.  A positive  *)
(* f64 is [m, e]: m the F64Bits bits of its significand, most significant  *)
(* (always 1) first, e the exponent of its last bit, so that its value is  *)
(* m * 2^e.  Every operation rounds to nearest, ties to even.  Integers    *)
(* stay below 2^31: a significand is handled bit by bit or in limbs of     *)
(* LimbBits bits.                                                          *)

F64Bits == 53
I32Bits == 31
I32Max == 2147483647
\* A significand is its leading bit and four limbs.
LimbBits == (F64Bits - 1) \div 4

\* The number whose binary digits, most significant first, are b[lo..hi].
RECURSIVE BitsValue(_, _, _)
BitsValue(b, lo, hi) ==
    IF lo > hi THEN 0
    ELSE IF lo = hi THEN b[lo]
    ELSE LET mid == (lo + hi) \div 2
         IN  BitsValue(b, lo, mid) * 2^(hi - mid) + BitsValue(b, mid + 1, hi)

\* The n low binary digits of v, most significant first.
LowBits(v, n) == [j \in 1..n |-> (v \div 2^(n - j)) % 2]

\* The binary digits of v >= 1, most significant (a 1) first.
BitsOf(v) ==
    LowBits(v, CHOOSE n \in 1..(I32Bits - 1) : 2^(n - 1) <= v /\ v < 2^n)

\* b + 1 on the digits b, which are not all 1.
IncBits(b) ==
    LET z == CHOOSE k \in DOMAIN b :
                 b[k] = 0 /\ \A j \in DOMAIN b : j > k => b[j] = 1
    IN  [j \in DOMAIN b |-> IF j < z THEN b[j] ELSE IF j = z THEN 1 ELSE 0]

\* Rounds m * 2^e, m of F64Bits bits, given how the discarded part compares
\* with half a unit of the last bit (cmp < 0 below, = 0 tie, > 0 above).
F64Round(m, e, cmp) ==
    IF ~(cmp > 0 \/ (cmp = 0 /\ m[F64Bits] = 1))
    THEN [m |-> m, e |-> e]
    ELSE IF \A k \in DOMAIN m : m[k] = 1
    THEN [m |-> [j \in 1..F64Bits |-> IF j = 1 THEN 1 ELSE 0], e |-> e + 1]
    ELSE [m |-> IncBits(m), e |-> e]

\* 2^j mod d.
RECURSIVE Pow2Mod(_, _)
Pow2Mod(j, d) ==
    IF j = 0 THEN 1 % d
    ELSE LET h == Pow2Mod(j \div 2, d)
         IN  (((h * h) % d) * (IF j % 2 = 1 THEN 2 ELSE 1)) % d

\* (a as f64) / (d as f64) for integers 1 <= a <= d < 2^14, by long
\* division: with a0 = a * 2^k in [d, 2d), the remainder left after the
\* first t quotient bits is (a0 * 2^(t-1)) mod d, and the next bit is 1 iff
\* twice that remainder reaches d.
F64Div(a, d) ==
    LET k      == CHOOSE n \in 0..14 : d <= a * 2^n /\ a * 2^n < 2 * d
        r1     == (a * 2^k) % d
        Rem(t) == (r1 * Pow2Mod(t - 1, d)) % d
        bits   == [j \in 1..F64Bits |->
                     IF j = 1 THEN 1
                     ELSE IF 2 * Rem(j - 1) >= d THEN 1 ELSE 0]
        last   == Rem(F64Bits)
        cmp    == IF 2 * last > d THEN 1 ELSE IF 2 * last = d THEN 0 ELSE -1
    IN  F64Round(bits, 0 - k - (F64Bits - 1), cmp)

\* The limb of weight 2^(LimbBits * t) of the significand m, t in 0..4.
Limb(m, t) ==
    BitsValue(m, Max(1, F64Bits - LimbBits * (t + 1) + 1), F64Bits - LimbBits * t)

\* x * (n as f64) for an f64 x > 0 and an integer 1 <= n < 2^17: the exact
\* product limb by limb, then one rounding.
F64MulInt(x, n) ==
    LET base  == 2^LimbBits
        c0    == Limb(x.m, 0) * n
        c1    == Limb(x.m, 1) * n + c0 \div base
        c2    == Limb(x.m, 2) * n + c1 \div base
        c3    == Limb(x.m, 3) * n + c2 \div base
        c4    == Limb(x.m, 4) * n + c3 \div base
        prod  == BitsOf(c4) \o LowBits(c3 % base, LimbBits)
                            \o LowBits(c2 % base, LimbBits)
                            \o LowBits(c1 % base, LimbBits)
                            \o LowBits(c0 % base, LimbBits)
        extra == Len(prod) - F64Bits
        cmp   == IF extra = 0 \/ prod[F64Bits + 1] = 0 THEN -1
                 ELSE IF \E j \in (F64Bits + 2)..Len(prod) : prod[j] = 1 THEN 1
                 ELSE 0
    IN  F64Round(SubSeq(prod, 1, F64Bits), x.e + extra, cmp)

\* x as i32 for an f64 x > 0: truncation, saturating at i32::MAX.
F64ToI32(x) ==
    LET keep == F64Bits + x.e
    IN  IF keep <= 0 THEN 0
        ELSE IF keep > I32Bits THEN I32Max
        ELSE BitsValue(x.m, 1, keep)

----------------------------------------------------------------------------
(* build_latency_histogram.                                                *)

Percentiles == 10000

\* ((p as f64 / 10000. * latencies.len() as f64) as i32 - 1).max(0) as usize
HistogramIndex(q, len) ==
    IF q = 0 \/ len = 0 THEN Max(0 - 1, 0)
    ELSE Max(F64ToI32(F64MulInt(F64Div(q, Percentiles), len)) - 1, 0)

\* println!("Latencies:"); latencies.sort_by(overhead); ...
HistogramStart ==
    /\ pc = "histogram"
    /\ sorted' = SortBy(latencies, "overhead")
    /\ p' = 0
    /\ idx' = 0
    /\ pc' = "histogram_loop"
    /\ UNCHANGED <<configVars, rateVars, panic, execVars, statVars, tl_start,
                   tl_i, batch, timeline, rpsVars>>

\* One iteration of `for p in 0..=10000`: the record at the computed index
\* is read (idx keeps the index) and its overhead joins the curve.
HistogramStep ==
    /\ pc = "histogram_loop"
    /\ p <= Percentiles
    /\ idx' = HistogramIndex(p, Len(sorted))
    /\ IF idx' >= Len(sorted)
       THEN pc' = "panicked" /\ panic' = "index out of bounds" /\ p' = p
       ELSE p' = p + 1 /\ UNCHANGED <<pc, panic>>
    /\ UNCHANGED <<configVars, rateVars, execVars, statVars, tlVars, rpsVars>>

\* The loop is over; the figures are saved and build_latency_histogram
\* returns.
HistogramDone ==
    /\ pc = "histogram_loop"
    /\ p > Percentiles
    /\ pc' = "rps_graph"
    /\ UNCHANGED <<configVars, rateVars, panic, execVars, statVars, tlVars, histVars, rpsVars>>

----------------------------------------------------------------------------
(* build_rps_graph.  The u64 values start, end and end - start are kept    *)
(* as integers; total, a sum of small counts, is exact in f64.             *)

\* *rps_buckets.get(&i).unwrap_or(&0)
BucketValue(k) == IF k \in DOMAIN rps_buckets THEN rps_buckets[k] ELSE 0

\* let start = 1 + min + 1; let end = max - 1; let mut x = vec![0]; ...
\* With max = 0 the subtraction panics when overflow checks are on and wraps
\* to u64::MAX when they are off; the loop then pushes to x and y until the
\* allocation fails.
RpsStart ==
    /\ pc = "rps_graph"
    /\ IF DOMAIN rps_buckets = {}
       THEN /\ pc' = "panicked"
            /\ panic' = "At least single data point must be here"
            /\ UNCHANGED rpsVars
       ELSE LET min == CHOOSE k \in DOMAIN rps_buckets :
                          \A j \in DOMAIN rps_buckets : k <= j
                max == CHOOSE k \in DOMAIN rps_buckets :
                          \A j \in DOMAIN rps_buckets : j <= k
            IN  IF max = 0
                THEN /\ pc' = "panicked"
                     /\ panic' \in {"attempt to subtract with overflow",
                                    "memory allocation failed"}
                     /\ UNCHANGED rpsVars
                ELSE /\ rps_start' = 1 + min + 1
                     /\ rps_end' = max - 1
                     /\ rps_i' = rps_start'
                     /\ rps_x' = <<0>>
                     /\ rps_y' = <<0>>
                     /\ rps_total' = 0
                     /\ pc' = "rps_loop"
                     /\ UNCHANGED <<panic, rps_den, rps_dev>>
    /\ UNCHANGED <<configVars, rateVars, execVars, statVars, tlVars, histVars>>

\* One iteration of the first `for i in start..end`.
RpsStep ==
    /\ pc = "rps_loop"
    /\ rps_i < rps_end
    /\ rps_x' = Append(rps_x, rps_i - rps_start)
    /\ rps_y' = Append(rps_y, BucketValue(rps_i))
    /\ rps_total' = rps_total + BucketValue(rps_i)
    /\ rps_i' = rps_i + 1
    /\ UNCHANGED <<configVars, rateVars, pc, panic, execVars, statVars, tlVars,
                   histVars, rps_start, rps_end, rps_den, rps_dev>>

\* let avg = total / (end - start) as f64; the second loop; println!.
\* end - start < 0 panics when overflow checks are on; when they are off the
\* divisor wraps (rps_den keeps end - start, to be read modulo 2^64).  A
\* divisor of 0 makes avg NaN.  The deviation is kept times the square of
\* the divisor: the sum of (total - value * (end - start))^2.
RpsDone ==
    /\ pc = "rps_loop"
    /\ ~(rps_i < rps_end)
    /\ rps_den' = rps_end - rps_start
    /\ rps_dev' = SumOver([k \in rps_start..(rps_end - 1) |->
                             (rps_total - BucketValue(k) * rps_den')
                                * (rps_total - BucketValue(k) * rps_den')],
                          rps_start..(rps_end - 1))
    /\ \/ /\ rps_end < rps_start
          /\ pc' = "panicked"
          /\ panic' = "attempt to subtract with overflow"
       \/ /\ pc' = "done"
          /\ UNCHANGED panic
    /\ UNCHANGED <<configVars, rateVars, execVars, statVars, tlVars, histVars,
                   rps_start, rps_end, rps_i, rps_x, rps_y, rps_total>>

----------------------------------------------------------------------------
(* Specifications of a run of main up to the hand-over of (latencies,      *)
(* rps_buckets) to the build_* functions.                                  *)

NextMain == RateStep \/ RateDone \/ CreateStatsChannel \/ Tick

NextSync ==
    \/ NextMain
    \/ SyncAdmit \/ SyncAdmitDone \/ DrainExit \/ JoinWorker \/ JoinDone
    \/ \E w \in DOMAIN workers : WorkerRecv(w) \/ WorkerReport(w) \/ WorkerExit(w)
    \/ ProcessSyncStats \/ ProcessSyncDone

NextAsync ==
    \/ NextMain
    \/ AsyncAdmit \/ AsyncAdmitDone \/ AwaitUnit \/ AwaitDone
    \/ \E u \in DOMAIN units : UnitWake(u) \/ UnitSend(u)
    \/ ProcessAsyncStats \/ ProcessAsyncDone

SpecSync == InitSync /\ [][NextSync]_vars

SpecAsync == InitAsync /\ [][NextAsync]_vars

\* Mode::Sync under fair scheduling: the main task, the clock and every
\* worker thread take a step they can take.
SyncFairness ==
    /\ WF_vars(RateStep \/ RateDone \/ CreateStatsChannel \/ SyncAdmit
                  \/ SyncAdmitDone \/ DrainExit \/ JoinWorker \/ JoinDone
                  \/ ProcessSyncStats \/ ProcessSyncDone)
    /\ WF_vars(Tick)
    /\ \A w \in 1..MaxWorkers :
          WF_vars(w \in DOMAIN workers
                     /\ (WorkerRecv(w) \/ WorkerReport(w) \/ WorkerExit(w)))

SpecSyncFair == SpecSync /\ SyncFairness

\* Mode::Async under fair scheduling: the main task, the clock and every
\* spawned task take a step they can take.
AsyncFairness ==
    /\ WF_vars(RateStep \/ RateDone \/ CreateStatsChannel \/ AsyncAdmit
                  \/ AsyncAdmitDone \/ AwaitUnit \/ AwaitDone
                  \/ ProcessAsyncStats \/ ProcessAsyncDone)
    /\ WF_vars(Tick)
    /\ \A u \in 1..MaxJobs :
          WF_vars(u \in DOMAIN units /\ (UnitWake(u) \/ UnitSend(u)))

SpecAsyncFair == SpecAsync /\ AsyncFairness

\* A run of Mode::Async in which a send of a spawned task may return Err.
\* main keeps stats_recv open until process_async_stats returns, so a run
\* of SpecAsync never takes that branch; here it is taken at the channel's
\* discretion, to show what the task does with the error.
NextAsyncSendErr == NextAsync \/ \E u \in DOMAIN units : UnitSendErr(u)

SpecAsyncSendErr == InitAsync /\ [][NextAsyncSendErr]_vars

Init == InitSync \/ InitAsync

Next == NextSync \/ NextAsync

Spec == Init /\ [][Next]_vars

----------------------------------------------------------------------------
(* The rate limiter's configuration alone, for every rate up to MaxRate.   *)

InitRate ==
    /\ mode = "Async"
    /\ n_workers = 0
    /\ n_jobs = 1
    /\ latency_distribution = <<AggCost>>
    /\ rps \in 1..MaxRate
    /\ pc = "rate_loop"
    /\ InitRest

NextRate == RateStep \/ RateDone

SpecRate == InitRate /\ [][NextRate]_vars

----------------------------------------------------------------------------
(* build_latency_timeline alone, on the (latencies, rps_buckets) that      *)
(* process_*_stats can hand over: up to MaxRecords successful records in   *)
(* the order of their completion, admitted in the order of their ids.      *)

NonDecreasing(f) == \A k \in 2..Len(f) : f[k - 1] <= f[k]

\* The rps_buckets that Collect builds from the records s.
Buckets(s) ==
    [b \in {BucketOf(s[k]) : k \in DOMAIN s} |->
        Cardinality({k \in DOMAIN s : BucketOf(s[k]) = b})]

InitAggregate(start_pc) ==
    /\ mode = "Async"
    /\ n_workers = 0
    /\ latency_distribution = <<AggCost>>
    /\ rps \in ExecRates
    /\ \E n \in 0..MaxRecords :
       \E st \in [1..n -> StartTimes], ov \in [1..n -> Overheads] :
          /\ NonDecreasing(st)
          /\ n_jobs = n
          /\ latencies = SortBy([k \in 1..n |->
                                   TaskStats(k - 1, st[k], AggCost, TRUE,
                                             st[k] + AggCost + ov[k])],
                                "completion_time")
    /\ rps_buckets = Buckets(latencies)
    /\ pc = start_pc
    /\ duration_ms = 1000
    /\ refill = rps
    /\ panic = "none"
    /\ now = 0
    /\ waited = 0
    /\ acquire_failed = FALSE
    /\ i = n_jobs
    /\ queue = <<>>
    /\ send_open = TRUE
    /\ workers = <<>>
    /\ joined = 0
    /\ units = <<>>
    /\ awaited = n_jobs
    /\ stats = <<>>
    /\ emitted = 0..(n_jobs - 1)
    /\ lost = {}
    /\ received = n_jobs
    /\ sorted = <<>>
    /\ tl_start = 0
    /\ tl_i = 0
    /\ batch = <<>>
    /\ timeline = <<>>
    /\ p = 0
    /\ idx = 0
    /\ rps_start = 0
    /\ rps_end = 0
    /\ rps_i = 0
    /\ rps_x = <<>>
    /\ rps_y = <<>>
    /\ rps_total = 0
    /\ rps_den = 0
    /\ rps_dev = 0

InitTimeline == InitAggregate("timeline")

NextTimeline == TimelineStart \/ TimelineStep \/ TimelineDone

SpecTimeline == InitTimeline /\ [][NextTimeline]_vars

----------------------------------------------------------------------------
(* build_latency_histogram alone, on HistSizes successful records.         *)

\* The records of a run that admits a request every TickMs and completes
\* them with overheads that are not in order.
HistRecord(k) ==
    TaskStats(k - 1, (k - 1) * TickMs, AggCost, TRUE,
              (k - 1) * TickMs + AggCost + ((k * 7) % 5) * 10)

InitHistogram ==
    /\ mode = "Async"
    /\ n_workers = 0
    /\ latency_distribution = <<AggCost>>
    /\ rps \in ExecRates
    /\ n_jobs \in HistSizes
    /\ latencies = SortBy([k \in 1..n_jobs |-> HistRecord(k)], "completion_time")
    /\ rps_buckets = Buckets(latencies)
    /\ pc = "histogram"
    /\ duration_ms = 1000
    /\ refill = rps
    /\ panic = "none"
    /\ now = 0
    /\ waited = 0
    /\ acquire_failed = FALSE
    /\ i = n_jobs
    /\ queue = <<>>
    /\ send_open = TRUE
    /\ workers = <<>>
    /\ joined = 0
    /\ units = <<>>
    /\ awaited = n_jobs
    /\ stats = <<>>
    /\ emitted = 0..(n_jobs - 1)
    /\ lost = {}
    /\ received = n_jobs
    /\ sorted = <<>>
    /\ tl_start = 0
    /\ tl_i = 0
    /\ batch = <<>>
    /\ timeline = <<>>
    /\ p = 0
    /\ idx = 0
    /\ rps_start = 0
    /\ rps_end = 0
    /\ rps_i = 0
    /\ rps_x = <<>>
    /\ rps_y = <<>>
    /\ rps_total = 0
    /\ rps_den = 0
    /\ rps_dev = 0

NextHistogram == HistogramStart \/ HistogramStep \/ HistogramDone

SpecHistogram == InitHistogram /\ [][NextHistogram]_vars

----------------------------------------------------------------------------
(* build_rps_graph alone, on the buckets of a run that completes one       *)
(* request in each second of a set of seconds up to MaxSecond.             *)

\* The k-th smallest element of the set S of numbers.
Nth(S, k) == CHOOSE e \in S : Cardinality({m \in S : m < e}) = k - 1

InitRps ==
    /\ mode = "Async"
    /\ n_workers = 0
    /\ latency_distribution = <<AggCost>>
    /\ rps \in ExecRates
    /\ \E K \in SUBSET (0..MaxSecond) :
          /\ n_jobs = Cardinality(K)
          /\ latencies = [k \in 1..Cardinality(K) |->
                            TaskStats(k - 1, Nth(K, k) * 1000, AggCost, TRUE,
                                      Nth(K, k) * 1000 + AggCost)]
    /\ rps_buckets = Buckets(latencies)
    /\ pc = "rps_graph"
    /\ duration_ms = 1000
    /\ refill = rps
    /\ panic = "none"
    /\ now = 0
    /\ waited = 0
    /\ acquire_failed = FALSE
    /\ i = n_jobs
    /\ queue = <<>>
    /\ send_open = TRUE
    /\ workers = <<>>
    /\ joined = 0
    /\ units = <<>>
    /\ awaited = n_jobs
    /\ stats = <<>>
    /\ emitted = 0..(n_jobs - 1)
    /\ lost = {}
    /\ received = n_jobs
    /\ sorted = <<>>
    /\ tl_start = 0
    /\ tl_i = 0
    /\ batch = <<>>
    /\ timeline = <<>>
    /\ p = 0
    /\ idx = 0
    /\ rps_start = 0
    /\ rps_end = 0
    /\ rps_i = 0
    /\ rps_x = <<>>
    /\ rps_y = <<>>
    /\ rps_total = 0
    /\ rps_den = 0
    /\ rps_dev = 0

NextRps == RpsStart \/ RpsStep \/ RpsDone

SpecRps == InitRps /\ [][NextRps]_vars

----------------------------------------------------------------------------
(* Properties.                                                             *)

Ids(s) == {s[k].id : k \in DOMAIN s}

Admitted == 0..(i - 1)

Distinct(s) == Cardinality(Ids(s)) = Len(s)

\* The requests a worker has popped and whose record is not emitted yet.
InProcessing == (Admitted \ Ids(queue)) \ emitted

\* The requests whose cost is below the timeout.
FastRequests == {k \in 0..(n_jobs - 1) : CostOf(k) < TIMEOUT}

\* C1: in sync mode with n_jobs >= 1 and n_workers >= 1, once sync_execution
\* has joined every worker the stats channel holds exactly one record per
\* admitted request (n_jobs records, none lost, none duplicated), and
\* process_sync_stats has consumed exactly n_jobs records when it returns.
C1_SyncRecordsComplete ==
    (mode = "Sync" /\ n_jobs >= 1 /\ n_workers >= 1) =>
        /\ (pc = "process_stats" /\ received = 0) =>
              /\ Len(stats) = n_jobs
              /\ Ids(stats) = 0..(n_jobs - 1)
              /\ lost = {}
        /\ pc = "process_stats" => received + Len(stats) = n_jobs
        /\ pc = "timeline" => (received = n_jobs /\ stats = <<>>)

C1_Witness ==
    /\ mode = "Sync"
    /\ n_workers >= 1
    /\ n_jobs >= 2
    /\ pc = "timeline"
    /\ received = n_jobs

\* C2: in async mode with n_jobs >= 1, once async_execution has awaited every
\* spawned task exactly one record per task has been emitted (n_jobs records),
\* process_async_stats never waits on an empty channel, and it has received
\* exactly n_jobs records when it returns.
C2_AsyncRecordsComplete ==
    (mode = "Async" /\ n_jobs >= 1) =>
        /\ pc \in {"process_stats", "timeline"} =>
              /\ emitted = 0..(n_jobs - 1)
              /\ received + Len(stats) = n_jobs
              /\ Distinct(stats)
        /\ (pc = "process_stats" /\ received < n_jobs) => stats # <<>>
        /\ pc = "timeline" => (received = n_jobs /\ stats = <<>>)

C2_Witness ==
    /\ mode = "Async"
    /\ n_jobs >= 2
    /\ pc = "timeline"
    /\ received = n_jobs
    /\ \E k \in 1..(Len(units) - 1) :
          units[k].stats.completion_time > units[k + 1].stats.completion_time

\* C3: in sync mode the requests popped by a worker and not yet reported are
\* exactly the ones the sleeping workers hold, one each, so they are never
\* more than n_workers.
C3_BoundedWorkers ==
    mode = "Sync" =>
        /\ Cardinality(InProcessing) <= n_workers
        /\ InProcessing =
              {workers[w].task.id : w \in {v \in DOMAIN workers :
                                              workers[v].state = "sleep"}}

C3_Witness ==
    /\ mode = "Sync"
    /\ n_workers >= 1
    /\ Cardinality(InProcessing) = n_workers
    /\ queue # <<>>

\* C4: in async mode admission never waits for an outstanding task: with
\* requests left to admit the admission step is enabled however many spawned
\* tasks are outstanding, and every admitted request is outstanding or
\* emitted.  The witness is the state with all n_jobs tasks outstanding.
C4_AsyncAdmissionUnbounded ==
    mode = "Async" =>
        /\ (pc = "admit" /\ i < n_jobs) => ENABLED AsyncAdmit
        /\ Cardinality(Outstanding) = Len(units) - Cardinality(emitted)
        /\ Len(units) = i

C4_Witness ==
    /\ mode = "Async"
    /\ n_jobs >= 2
    /\ i = n_jobs
    /\ Cardinality(Outstanding) = n_jobs
    /\ \A u \in DOMAIN units : units[u].state = "delay" /\ now < units[u].wake

\* C5: in both modes every record carries success = TRUE iff the cost of its
\* own request is below 1000 ms, whatever its overhead; only such records
\* are kept, and at the end the successes are the requests with a cost below
\* 1000 ms and the failures are all the others.
C5_SuccessIffCostBelowTimeout ==
    /\ \A k \in DOMAIN stats : stats[k].success <=> (CostOf(stats[k].id) < TIMEOUT)
    /\ \A u \in DOMAIN units :
          units[u].state # "delay" =>
             (units[u].stats.success <=> (CostOf(units[u].id) < TIMEOUT))
    /\ \A k \in DOMAIN latencies :
          latencies[k].success /\ CostOf(latencies[k].id) < TIMEOUT
    /\ (pc = "timeline" /\ n_jobs >= 1) =>
          /\ Ids(latencies) = FastRequests
          /\ Len(latencies) = Cardinality(FastRequests)
          /\ received - Len(latencies) = n_jobs - Cardinality(FastRequests)

C5_Witness ==
    /\ pc = "timeline"
    /\ mode = "Sync"
    /\ Len(latencies) >= 1
    /\ Len(latencies) < n_jobs
    /\ \E k \in DOMAIN latencies : latencies[k].overhead > TIMEOUT

Intervals == {1, 10, 100, 1000}

\* C6: for every rate r >= 1 the configured pair keeps the rate exactly:
\* refill * 1000 = r * duration_ms, both positive, duration_ms among
\* 1, 10, 100, 1000.
C6_RateExact ==
    pc = "start" =>
        /\ refill * 1000 = rps * duration_ms
        /\ refill >= 1
        /\ duration_ms \in Intervals

C6_Witness == pc = "start" /\ duration_ms = 1 /\ refill = 2

\* The values of Intervals for which rps * d / 1000 is an integer.
ExactIntervals == {d \in Intervals : (rps * d) % 1000 = 0}

\* C7 as stated: duration_ms is the largest interval among 1, 10, 100, 1000
\* for which refill = r * duration_ms / 1000 is an integer.
C7_CoarsestInterval ==
    pc = "start" => \A d \in ExactIntervals : d <= duration_ms

\* C7 amended: duration_ms is the smallest interval among 1, 10, 100, 1000
\* for which refill = r * duration_ms / 1000 is an integer.
C7_FinestInterval ==
    pc = "start" =>
        /\ duration_ms \in ExactIntervals
        /\ \A d \in ExactIntervals : duration_ms <= d

C7_Witness == pc = "start" /\ duration_ms = 10 /\ refill = 7

\* C9: when no record is successful, no build_* function indexes an empty
\* collection out of bounds.
C9_NoSuccessNoOutOfBounds ==
    Len(latencies) = 0 => panic # "index out of bounds"

\* C10: for a non-empty sequence of successful records, the window indices
\* of build_latency_timeline never underflow and never leave the batch.
C10_DegenerateWindowsSafe ==
    Len(latencies) >= 1 =>
        panic \notin {"attempt to subtract with overflow", "index out of bounds"}

\* C8: for N >= 1 records the index used for percentile q is
\* max(0, floor(q * N / 10000) - 1) and lies in 0..N-1, q = 0 gives 0 and
\* q = 10000 gives N - 1.  (After a step, idx is the index used for p - 1.)
C8_PercentileIndex ==
    (pc = "histogram_loop" /\ p >= 1 /\ Len(sorted) >= 1) =>
        /\ idx = Max(0, ((p - 1) * Len(sorted)) \div Percentiles - 1)
        /\ idx \in 0..(Len(sorted) - 1)
        /\ (p - 1 = 0 => idx = 0)
        /\ (p - 1 = Percentiles => idx = Len(sorted) - 1)

\* C11: in async mode a delivery error is fatal: once a spawned task has
\* failed to hand its record to the stats channel, the run is aborted (it
\* does not go on with the record missing).
C11_DeliveryErrorFatal ==
    (mode = "Async" /\ lost # {}) => pc = "panicked"

\* C12: in both modes the request admitted by iteration k carries the cost
\* latency_distribution[k mod length], and the look-up never fails on an
\* index or a division, whatever distribution the configuration produced
\* (the empty one of `value*0` included).
C12_CyclicCosts ==
    /\ panic # "remainder with a divisor of zero"
    /\ \A k \in DOMAIN queue :
          queue[k].cost =
             latency_distribution[(queue[k].id % Len(latency_distribution)) + 1]
    /\ \A u \in DOMAIN units :
          units[u].cost =
             latency_distribution[(units[u].id % Len(latency_distribution)) + 1]

\* C13: in sync mode the push of the admission loop never finds the task
\* queue full: the queue holds at most the requests admitted so far, never
\* more than n_jobs, a free slot is left whenever a request is still to be
\* admitted, and the loop never panics on Err(Full).
C13_SyncAdmissionNeverFull ==
    mode = "Sync" =>
        /\ Len(queue) <= i
        /\ Len(queue) <= n_jobs
        /\ (pc = "admit" /\ i < n_jobs) => Len(queue) < Capacity
        /\ panic # "unwrap on Err(Full)"

C13_Witness ==
    /\ mode = "Sync"
    /\ n_jobs >= 2
    /\ i = n_jobs
    /\ Len(queue) = n_jobs

\* C14: in sync mode the task queue is closed only after every admitted
\* request has emitted its record (all n_jobs admitted, none queued, none in
\* processing); a worker has left its receive loop only after the close;
\* and aggregation runs only after every worker has exited and been joined.
C14_SyncShutdownOrder ==
    mode = "Sync" =>
        /\ ~send_open =>
              /\ i = n_jobs
              /\ Cardinality(emitted) = i
              /\ emitted = Admitted
              /\ queue = <<>>
              /\ InProcessing = {}
        /\ \A w \in DOMAIN workers : workers[w].state = "exited" => ~send_open
        /\ pc \in {"admit", "drain"} => (send_open /\ joined = 0)
        /\ pc \in {"process_stats", "timeline"} =>
              /\ ~send_open
              /\ joined = n_workers
              /\ \A w \in DOMAIN workers : workers[w].state = "exited"

C14_Witness ==
    /\ mode = "Sync"
    /\ n_workers >= 2
    /\ n_jobs >= 2
    /\ pc = "process_stats"
    /\ joined = n_workers

\* The requests whose cost reaches the timeout.
SlowRequests == {k \in 0..(n_jobs - 1) : CostOf(k) >= TIMEOUT}

\* C15: in both modes a request whose cost reaches 1000 ms is held for its
\* whole cost and its record is emitted and counted like any other (the run
\* completes with n_jobs records received), yet no record with success =
\* FALSE is in latencies or counted in a bucket: every bucket counts the
\* kept records of its second and the counts add up to their number.
C15_TimeoutsMeasuredNotEnforced ==
    /\ \A k \in DOMAIN stats :
          stats[k].completion_time - stats[k].start_time >= CostOf(stats[k].id)
    /\ \A u \in DOMAIN units :
          units[u].state # "delay" =>
             units[u].stats.completion_time - units[u].start >= units[u].cost
    /\ \A k \in DOMAIN latencies : latencies[k].success
    /\ \A b \in DOMAIN rps_buckets :
          rps_buckets[b] =
             Cardinality({k \in DOMAIN latencies : BucketOf(latencies[k]) = b})
    /\ SumOver(rps_buckets, DOMAIN rps_buckets) = Len(latencies)
    /\ (pc = "timeline" /\ n_jobs >= 1) =>
          /\ SlowRequests \subseteq emitted
          /\ received = n_jobs
          /\ Len(latencies) = n_jobs - Cardinality(SlowRequests)

C15_Witness ==
    /\ mode = "Async"
    /\ pc = "timeline"
    /\ SlowRequests # {}
    /\ Len(latencies) >= 1
    /\ received = n_jobs

\* C16: the windows of build_latency_timeline partition the records: every
\* record the loop has passed is in exactly one window, a closed one or the
\* one being filled, so the sizes of the closed windows and of the batch add
\* up to the number of records passed, and a closed window is never empty.
C16_WindowsPartition ==
    pc \in {"timeline_loop", "histogram"} =>
        /\ SumOver([k \in DOMAIN timeline |-> timeline[k].size], DOMAIN timeline)
              + (IF pc = "timeline_loop" /\ tl_i < Len(sorted) THEN Len(batch) ELSE 0)
              = tl_i
        /\ \A k \in DOMAIN timeline : timeline[k].size >= 1

\* The keys of the buckets that entered the summary: x holds i - start for
\* every i of the loop, after its initial 0.
SummedKeys == {rps_start + rps_x[j] : j \in 2..Len(rps_x)}

\* C17: for a non-empty bucket map with smallest key min and largest key
\* max, the buckets that enter the summary are exactly those with
\* min < key < max, and the average divides by their number.
C17_RpsSummaryRange ==
    (pc = "done" /\ DOMAIN rps_buckets # {}) =>
        LET keys == DOMAIN rps_buckets
        IN  /\ SummedKeys = {k \in 0..MaxSecond :
                                /\ \E j \in keys : j < k
                                /\ \E j \in keys : k < j}
            /\ rps_den = Cardinality(SummedKeys)

\* The requests held by the workers.
HeldByWorkers ==
    {workers[w].task.id : w \in {v \in DOMAIN workers : workers[v].state = "sleep"}}

\* C18: in both modes an Err of acquire_one is not fatal: after one, the run
\* is aborted only where it is aborted without one (an empty distribution);
\* otherwise the iteration has submitted its request like any other, every
\* admitted request is queued, held, outstanding or emitted, and a run that
\* completes has admitted n_jobs requests and received n_jobs records.
C18_AdmissionErrorsNonFatal ==
    acquire_failed =>
        /\ pc = "panicked" =>
              (Len(latency_distribution) = 0
                  /\ panic = "remainder with a divisor of zero")
        /\ pc # "panicked" => i >= 1
        /\ mode = "Sync" => Admitted = Ids(queue) \cup HeldByWorkers \cup emitted
        /\ mode = "Async" => (Len(units) = i /\ Ids(units) = Admitted)
        /\ pc = "timeline" =>
              /\ i = n_jobs
              /\ emitted = 0..(n_jobs - 1)
              /\ received = n_jobs

C18_Witness ==
    /\ acquire_failed
    /\ mode = "Sync"
    /\ n_jobs >= 2
    /\ pc = "timeline"
    /\ received = n_jobs

\* C19: in sync mode no record is lost: until process_sync_stats starts
\* nothing is taken from the stats channel, a worker's try_send always
\* finds a free slot (the channel holds fewer than n_jobs records whenever a
\* worker is about to report), and the channel holds exactly one record for
\* every request whose processing has finished.
C19_SyncNoRecordLost ==
    mode = "Sync" =>
        /\ lost = {}
        /\ (\E w \in DOMAIN workers : workers[w].state = "sleep") =>
              Len(stats) < Capacity
        /\ pc \in {"admit", "drain", "join"} =>
              /\ received = 0
              /\ Len(stats) = Cardinality(emitted)
              /\ Ids(stats) = emitted
        /\ Len(stats) + received = Cardinality(emitted)

C19_Witness ==
    /\ mode = "Sync"
    /\ n_jobs >= 2
    /\ pc = "drain"
    /\ Len(stats) = n_jobs - 1
    /\ \E w \in DOMAIN workers : workers[w].state = "sleep" /\ now >= workers[w].wake

\* sync_execution has returned: the sender is dropped, every worker joined.
Joined == mode = "Sync" /\ pc \in {"process_stats", "timeline"}

\* C20: under fair scheduling sync_execution reaches Joined if and only if
\* n_workers >= 1 or n_jobs = 0: every such run reaches it, and a run with
\* n_workers = 0 and n_jobs >= 1 never leaves the drain loop.
C20_SyncTermination ==
    /\ (n_workers >= 1 \/ n_jobs = 0) ~> Joined
    /\ []((n_workers = 0 /\ n_jobs >= 1) => ~Joined /\ pc # "join")

\* Termination for the runs with a non-empty latency_distribution.
SyncTerminationNonEmpty ==
    /\ (Len(latency_distribution) > 0 /\ (n_workers >= 1 \/ n_jobs = 0)) ~> Joined
    /\ []((n_workers = 0 /\ n_jobs >= 1) => ~Joined /\ pc # "join")

\* No spawned task waits for a free slot of the stats channel, and nothing
\* is received from it before every task has been awaited.
AsyncSendNeverWaits ==
    mode = "Async" =>
        /\ (\E u \in DOMAIN units : units[u].state = "send") => Len(stats) < Capacity
        /\ pc \in {"admit", "await"} => received = 0
        /\ pc = "process_stats" => (awaited = n_jobs /\ Outstanding = {})

\* process_async_stats has returned with all n_jobs records.
AllReceived == mode = "Async" /\ pc = "timeline" /\ received = n_jobs

\* C21: async mode cannot deadlock on the stats channel: no send ever waits
\* for free capacity, records are received only after every task has been
\* awaited, and with n_jobs >= 1 every fair run ends up having awaited all
\* tasks and received all n_jobs records.
C21_AsyncNoDeadlock ==
    /\ []AsyncSendNeverWaits
    /\ (n_jobs >= 1) ~> AllReceived

\* The same for the runs with a non-empty latency_distribution.
AsyncTerminationNonEmpty ==
    /\ []AsyncSendNeverWaits
    /\ (n_jobs >= 1 /\ Len(latency_distribution) > 0) ~> AllReceived

====
